---- MODULE Spec2Model ----
(***************************************************************************)
(* WhatsApp server: session persistence in Google Secret Manager           *)
(* (src/bot/auth/secretManagerAuthState.js) and the connection lifecycle   *)
(* (src/bot/connection.js).                                                *)
(*                                                                         *)
(* One index i names one run of connectToWhatsApp(): the adapter built by  *)
(* useSecretManagerAuthState() in that run and the socket built from it.   *)
(***************************************************************************)
EXTENDS Naturals, Integers, Sequences, FiniteSets, TLC

\* ------------------------------------------------------------------------
\* Bounds of the model
\* ------------------------------------------------------------------------
MaxAdapters == 2
MaxSaves == 2
TickMs == 1000

\* ------------------------------------------------------------------------
\* Program constants
\* ------------------------------------------------------------------------
GRPC_NOT_FOUND == 5
DEBOUNCE_DELAY_MS == 3000
RECONNECT_DELAY_MS == 5000
LoggedOut == 401

\* gRPC PERMISSION_DENIED: the caller may not access the secret
PermissionDenied == 7

\* gRPC codes the store client can throw besides NOT_FOUND:
\* PERMISSION_DENIED and UNAVAILABLE; ALREADY_EXISTS for a duplicate create.
OtherStoreErrors == {PermissionDenied, 14}
AlreadyExists == {6}

Adapters == 1 .. MaxAdapters

\* ------------------------------------------------------------------------
\* Signal keys: categories, ids and values handed to keys.set()/keys.get()
\* ------------------------------------------------------------------------
Categories == {"sender-key", "sender-key-memory"}
Ids == {"x", "memory-x"}
BufferIds == {1, 2}
Null == 0
SetValues == BufferIds \cup {Null}

\* keys.set() / keys.get(): the mirror is indexed by `${category}-${id}`
CompositeKey(type, id) == type \o "-" \o id

\* ------------------------------------------------------------------------
\* Serialisation: JSON.stringify(.., BufferJSON.replacer) and
\* JSON.parse(.., BufferJSON.reviver)
\* ------------------------------------------------------------------------
\* base64 text of the one-byte buffers 1, 2, 3, ...
Base64 == <<"AQ==", "Ag==", "Aw==", "BA==", "BQ==", "Bg==", "Bw==", "CA==", "CQ==">>

\* BufferJSON.replacer: a Buffer becomes { type: 'Buffer', data: <base64> }
Replacer(buf) == [type |-> "Buffer", data |-> Base64[buf]]

\* BufferJSON.reviver: { type: 'Buffer', data } becomes a Buffer again
Reviver(tagged) == CHOOSE b \in DOMAIN Base64 : Base64[b] = tagged.data

Stringify(creds, keys) ==
    [creds |-> [registered |-> IF creds.registered THEN "true" ELSE "false",
                noiseKey   |-> Replacer(creds.noiseKey)],
     keys  |-> [k \in DOMAIN keys |-> Replacer(keys[k])]]

\* faulty variant of Parse that loses the key mapping
ParseWithoutKeys(raw) ==
    [creds |-> [registered |-> (raw.creds.registered = "true"),
                noiseKey   |-> Reviver(raw.creds.noiseKey)],
     keys  |-> << >>]

Parse(raw) ==
    [creds |-> [registered |-> (raw.creds.registered = "true"),
                noiseKey   |-> Reviver(raw.creds.noiseKey)],
     keys  |-> [k \in DOMAIN raw.keys |-> Reviver(raw.keys[k])]]

\* initAuthCreds(): blank, unregistered credentials with freshly generated keys
InitAuthCreds(a) == [registered |-> FALSE, noiseKey |-> a]

EmptyKeys == << >>

\* ------------------------------------------------------------------------
\* State
\* ------------------------------------------------------------------------
VARIABLES
    env,        \* process.env: is GCP_PROJECT_ID set, is PHONE_NUMBER set
    proc,       \* "running", or "exited": process.exit(1) or an unhandled rejection,
                \* both with exit status 1
    store,      \* the remote secret: does it exist, its versions in order (blobs and
                \* order are history: what each version serialised, and which save)
    adapters,   \* per run: the auth state built by useSecretManagerAuthState
    socks,      \* per run: the socket built by makeWASocket and its pairing flag
    awaiting,   \* connection.update handlers suspended in requestPairingCode
    timers,     \* pending setTimeout timers (debounce and reconnect)
    saves,      \* the saveSecretValue() calls in flight, in the order they were issued
    done,       \* history: how the saveSecretValue() call that settled last ended
    issued,     \* history: how many saveSecretValue() calls were issued
    bursts,     \* history: per adapter, the current/last burst of keys.set()
    lastSet,    \* history: per adapter, the value last passed to set() per (category, id)
    upserts     \* the runs of the messages.upsert listener, in the order of their events

vars == <<env, proc, store, adapters, socks, awaiting, timers, saves, done, issued,
          bursts, lastSet, upserts>>

\* history marker: set() was never called for this (category, id)
Never == Null - 1

\* answer, loaded and caller are history: the store's answer to the read,
\* the number of the version that was read, and who called
\* connectToWhatsApp() ("main" or "timer")
NoAdapter == [status |-> "none", creds |-> InitAuthCreds(1), keys |-> EmptyKeys,
              timer |-> FALSE, answer |-> 0, loaded |-> 0, caller |-> "none"]

\* conn .. armedOnLogout are history: the last connection state reported,
\* pairing requests issued / resolved / rejected, non-logout closes handled,
\* reconnect timers armed, a loggedOut close handled, a timer armed by it;
\* handler: registerMessageHandler(sock) was called with this socket
NoSock == [state |-> "none", pairingCodeRequested |-> FALSE, conn |-> "none",
           requests |-> 0, succeeded |-> 0, failures |-> 0,
           owed |-> 0, scheduled |-> 0, loggedOut |-> FALSE, armedOnLogout |-> FALSE,
           handler |-> FALSE]

\* age is history too: the time since the first set() of the open burst
NoBurst == [open |-> FALSE, sets |-> 0, fired |-> 0, changed |-> FALSE, last |-> EmptyKeys,
            age |-> 0]

NeverSet == [p \in Categories \X Ids |-> Never]

InitWith(e) ==
    /\ env = e
    /\ proc = "running"
    /\ store = [exists |-> FALSE, versions |-> << >>, blobs |-> << >>, order |-> << >>]
    /\ adapters = [a \in Adapters |-> NoAdapter]
    /\ socks = [a \in Adapters |-> NoSock]
    /\ awaiting = << >>
    /\ timers = << >>
    /\ saves = << >>
    /\ done = {}
    /\ issued = 0
    /\ bursts = [a \in Adapters |-> NoBurst]
    /\ lastSet = [a \in Adapters |-> NeverSet]
    /\ upserts = << >>

\* the process starts with every configuration of its environment
Init == \E e \in [projectId : BOOLEAN, phone : BOOLEAN] : InitWith(e)

\* the process starts fully configured
InitConfigured == InitWith([projectId |-> TRUE, phone |-> TRUE])

\* ------------------------------------------------------------------------
\* Helpers
\* ------------------------------------------------------------------------
RemoveAt(s, i) == [j \in 1 .. (Len(s) - 1) |-> IF j < i THEN s[j] ELSE s[j + 1]]

Min(x, y) == IF x < y THEN x ELSE y

\* history counters saturate at two ("two or more")
Bump(n) == Min(n + 1, 2)

\* ------------------------------------------------------------------------
\* getSecretValue / useSecretManagerAuthState
\* ------------------------------------------------------------------------
\* accessSecretVersion(.../versions/latest): the payload of the highest
\* version (code 0), or an error code
AccessOutcomes(errs) ==
    IF store.exists /\ Len(store.versions) > 0
    THEN {0} \cup errs
    ELSE {GRPC_NOT_FOUND} \cup errs

LatestPayload == store.versions[Len(store.versions)]

\* faulty variant of getSecretValue that answers null on every error
GetSecretValueSwallowing(code) ==
    IF code = 0 THEN [thrown |-> FALSE, isNull |-> FALSE, raw |-> LatestPayload]
    ELSE [thrown |-> FALSE, isNull |-> TRUE, raw |-> Stringify(InitAuthCreds(1), EmptyKeys)]

\* getSecretValue: the payload, null on NOT_FOUND, or the error rethrown
GetSecretValue(code) ==
    IF code = 0 THEN [thrown |-> FALSE, isNull |-> FALSE, raw |-> LatestPayload]
    ELSE IF code = GRPC_NOT_FOUND
    THEN [thrown |-> FALSE, isNull |-> TRUE, raw |-> Stringify(InitAuthCreds(1), EmptyKeys)]
    ELSE [thrown |-> TRUE, isNull |-> TRUE, raw |-> Stringify(InitAuthCreds(1), EmptyKeys)]

\* useSecretManagerAuthState once getSecretValue has settled with `code`
UseSecretManagerAuthState(a, code) ==
    LET got == GetSecretValue(code)
        parsed == Parse(got.raw)
    IN  IF got.thrown
        THEN [NoAdapter EXCEPT !.status = "failed"]
        ELSE IF ~got.isNull
        THEN [NoAdapter EXCEPT !.status = "ready", !.creds = parsed.creds, !.keys = parsed.keys]
        ELSE [NoAdapter EXCEPT !.status = "ready", !.creds = InitAuthCreds(a)]

\* ------------------------------------------------------------------------
\* persistState / saveSecretValue
\* ------------------------------------------------------------------------
\* faulty variant of persistState that serialises the credentials without
\* the key mirror
PersistStateWithoutKeys(ads, a, via) ==
    [adapter |-> a, via |-> via, dead |-> FALSE,
     payload |-> Stringify(ads[a].creds, EmptyKeys),
     pc |-> "add1", err |-> 0,
     blob |-> [creds |-> ads[a].creds, keys |-> EmptyKeys],
     burstBlob |-> [creds |-> ads[a].creds, keys |-> bursts[a].last],
     codes |-> << >>, adds |-> 1, creates |-> 0, added |-> 0, seq |-> issued + 1,
     afterLogout |-> socks[a].loggedOut]

\* persistState(): serialise now and call saveSecretValue, which issues its
\* first addSecretVersion at once.  blob, burstBlob, codes, adds, creates,
\* added, seq and afterLogout are history: what was serialised, what the
\* burst expects, the store's answers, the calls made, the versions added,
\* the rank of this persistState() among all of them, and whether the
\* socket of the adapter had been closed by a logout when it was called.
PersistState(ads, a, via) ==
    [adapter |-> a, via |-> via, dead |-> FALSE,
     payload |-> Stringify(ads[a].creds, ads[a].keys),
     pc |-> "add1", err |-> 0,
     blob |-> [creds |-> ads[a].creds, keys |-> ads[a].keys],
     burstBlob |-> [creds |-> ads[a].creds, keys |-> bursts[a].last],
     codes |-> << >>, adds |-> 1, creates |-> 0, added |-> 0, seq |-> issued + 1,
     afterLogout |-> socks[a].loggedOut]

AddOutcomes(errs) ==
    IF store.exists THEN {0} \cup errs ELSE {GRPC_NOT_FOUND} \cup errs

CreateOutcomes(errs) ==
    IF store.exists THEN AlreadyExists \cup errs ELSE {0} \cup errs

\* faulty variant of saveSecretValue that rejects on NOT_FOUND as on any
\* other error
AfterFirstAddWithoutCreate(code) ==
    IF code = 0 THEN [pc |-> "ok", err |-> 0] ELSE [pc |-> "failed", err |-> code]

\* faulty variant of saveSecretValue that retries whatever createSecret answers
AfterCreateIgnoringFailure(code) == [pc |-> "add2", err |-> 0]

\* saveSecretValue after its first addSecretVersion settles: the next
\* position and the error thrown
AfterFirstAdd(code) ==
    IF code = 0 THEN [pc |-> "ok", err |-> 0]
    ELSE IF code # GRPC_NOT_FOUND THEN [pc |-> "failed", err |-> code]
    ELSE [pc |-> "create", err |-> 0]

\* saveSecretValue after createSecret settles
AfterCreate(code) ==
    IF code = 0 THEN [pc |-> "add2", err |-> 0] ELSE [pc |-> "failed", err |-> code]

\* saveSecretValue after the retried addSecretVersion settles
AfterSecondAdd(code) ==
    IF code = 0 THEN [pc |-> "ok", err |-> 0] ELSE [pc |-> "failed", err |-> code]

\* the store applies addSecretVersion / createSecret
StoreAfterAdd(s, code) ==
    IF code = 0
    THEN [store EXCEPT !.versions = Append(@, s.payload), !.blobs = Append(@, s.blob),
                       !.order = Append(@, [seq |-> s.seq, via |-> s.via, adapter |-> s.adapter])]
    ELSE store

StoreAfterCreate(code) ==
    IF code = 0 THEN [store EXCEPT !.exists = TRUE] ELSE store

\* history: the save with the store's answer and the call its continuation made
Observed(s, code, next) ==
    [s EXCEPT !.pc = next.pc, !.err = next.err,
              !.codes = Append(@, code),
              !.adds = IF next.pc = "add2" THEN @ + 1 ELSE @,
              !.creates = IF next.pc = "create" THEN @ + 1 ELSE @,
              !.added = @ + (Len(store'.versions) - Len(store.versions))]

\* history record of a settled save
Outcome(s) ==
    [adapter |-> s.adapter, via |-> s.via, pc |-> s.pc, err |-> s.err, codes |-> s.codes,
     adds |-> s.adds, creates |-> s.creates, added |-> s.added,
     landed |-> (Len(store'.versions) > 0 /\ store'.versions[Len(store'.versions)] = s.payload)]

\* requests already sent by a process that is gone still reach the store,
\* their continuations never run
Orphaned(ss) == [j \in DOMAIN ss |-> [ss[j] EXCEPT !.dead = TRUE]]

\* faulty variant in which the debounce callback has no .catch
UnhandledWithoutCatch(s) == s.pc = "failed"

\* faulty variant in which something handles the rejection of saveCreds()
UnhandledCaught(s) == FALSE

\* a rejected saveCreds() is the rejected promise of an event listener:
\* nothing handles it, and Node.js 20 ends the process on it
Unhandled(s) == s.pc = "failed" /\ s.via = "creds"

\* the continuation of saveSecretValue runs unless its process is gone; a
\* save that resolved or rejected leaves the calls in flight
Settle(i, code, next) ==
    LET s == Observed(saves[i], code, next)
    IN  IF saves[i].dead
        THEN saves' = RemoveAt(saves, i) /\ done' = done /\ proc' = proc
        ELSE IF s.pc \in {"ok", "failed"}
        THEN /\ done' = {Outcome(s)}
             /\ proc' = IF Unhandled(s) THEN "exited" ELSE proc
             /\ saves' = IF Unhandled(s) THEN Orphaned(RemoveAt(saves, i))
                                         ELSE RemoveAt(saves, i)
        ELSE saves' = [saves EXCEPT ![i] = s] /\ done' = done /\ proc' = proc

FirstAddSettles(i, errs) ==
    /\ i \in 1 .. Len(saves)
    /\ saves[i].pc = "add1"
    /\ \E code \in AddOutcomes(errs) :
          /\ store' = StoreAfterAdd(saves[i], code)
          /\ Settle(i, code, AfterFirstAdd(code))
    /\ UNCHANGED <<upserts, env, adapters, socks, awaiting, timers, issued, bursts, lastSet>>

CreateSettles(i, errs) ==
    /\ i \in 1 .. Len(saves)
    /\ saves[i].pc = "create"
    /\ \E code \in CreateOutcomes(errs) :
          /\ store' = StoreAfterCreate(code)
          /\ Settle(i, code, AfterCreate(code))
    /\ UNCHANGED <<upserts, env, adapters, socks, awaiting, timers, issued, bursts, lastSet>>

SecondAddSettles(i, errs) ==
    /\ i \in 1 .. Len(saves)
    /\ saves[i].pc = "add2"
    /\ \E code \in AddOutcomes(errs) :
          /\ store' = StoreAfterAdd(saves[i], code)
          /\ Settle(i, code, AfterSecondAdd(code))
    /\ UNCHANGED <<upserts, env, adapters, socks, awaiting, timers, issued, bursts, lastSet>>

\* ------------------------------------------------------------------------
\* Timers (setTimeout / clearTimeout)
\* ------------------------------------------------------------------------
Delay(t) == IF t.kind = "debounce" THEN DEBOUNCE_DELAY_MS ELSE RECONNECT_DELAY_MS

Due(t) == t.elapsed >= Delay(t)

\* faulty variant of the debounce that leaves the pending timer armed
ClearTimeoutSkipped(a) == timers

\* clearTimeout(timer): cancels the timer the debounce closure refers to
ClearTimeout(a) ==
    IF adapters[a].timer
    THEN SelectSeq(timers, LAMBDA t : ~(t.kind = "debounce" /\ t.owner = a /\ t.cur))
    ELSE timers

\* timer = setTimeout(.., delayMs): the closure now refers to the new timer
SetDebounceTimer(a, pending) ==
    Append([i \in DOMAIN pending |->
               IF pending[i].kind = "debounce" /\ pending[i].owner = a
               THEN [pending[i] EXCEPT !.cur = FALSE] ELSE pending[i]],
           [kind |-> "debounce", owner |-> a, cur |-> TRUE, elapsed |-> 0])

\* createDebounce(persistState, DEBOUNCE_DELAY_MS): debouncedFn()
DebouncedFn(a) == SetDebounceTimer(a, ClearTimeout(a))

\* ------------------------------------------------------------------------
\* state.keys.get / state.keys.set
\* ------------------------------------------------------------------------
\* faulty variant of set() that leaves the entry of a null value in place
ApplyEntryKeepingDeleted(keys, e) ==
    LET k == CompositeKey(e[1], e[2])
    IN  IF e[3] # Null
        THEN [j \in DOMAIN keys \cup {k} |-> IF j = k THEN e[3] ELSE keys[j]]
        ELSE keys

\* one entry of set(data): upsert a non-null value, delete on null
ApplyEntry(keys, e) ==
    LET k == CompositeKey(e[1], e[2])
    IN  IF e[3] # Null
        THEN [j \in DOMAIN keys \cup {k} |-> IF j = k THEN e[3] ELSE keys[j]]
        ELSE [j \in DOMAIN keys \ {k} |-> keys[j]]

RECURSIVE ApplyEntries(_, _)
ApplyEntries(keys, data) ==
    IF data = << >> THEN keys
    ELSE ApplyEntries(ApplyEntry(keys, Head(data)), Tail(data))

\* get(type, ids): the ids that have a mirror entry, with their values
Get(keys, type, ids) ==
    [id \in {i \in ids : CompositeKey(type, i) \in DOMAIN keys} |-> keys[CompositeKey(type, id)]]

Triples == Categories \X Ids \X SetValues

\* set(data) inputs: the (category, id, value) entries of data in iteration
\* order; an object holds each (category, id) once, category by category
MaxEntries == 2

WellFormedData(d) ==
    /\ \A i, j \in DOMAIN d : (i # j) => <<d[i][1], d[i][2]>> # <<d[j][1], d[j][2]>>
    /\ \A i, j, k \in DOMAIN d : (i < j /\ j < k /\ d[i][1] = d[k][1]) => d[j][1] = d[i][1]

DataOver(T) ==
    {d \in UNION {[1 .. n -> T] : n \in 1 .. MaxEntries} : WellFormedData(d)}

RECURSIVE NoteEntries(_, _)
NoteEntries(ls, data) ==
    IF data = << >> THEN ls
    ELSE NoteEntries([ls EXCEPT ![<<Head(data)[1], Head(data)[2]>>] = Head(data)[3]], Tail(data))

\* history: a set() that arrives while the timer armed by the previous one
\* is pending continues the burst, any other set() starts one
NoteBurst(a, keysAfter) ==
    IF bursts[a].open
    THEN [bursts[a] EXCEPT !.sets = Bump(@), !.last = keysAfter,
                           !.changed = (keysAfter # bursts[a].last)]
    ELSE [open |-> TRUE, sets |-> 1, fired |-> 0, changed |-> FALSE, last |-> keysAfter,
          age |-> 0]

KeysSet(a, data) ==
    /\ proc = "running"
    /\ adapters[a].status = "ready"
    /\ socks[a].state = "live"
    /\ LET keysAfter == ApplyEntries(adapters[a].keys, data)
       IN  /\ adapters' = [adapters EXCEPT ![a].keys = keysAfter, ![a].timer = TRUE]
           /\ bursts' = [bursts EXCEPT ![a] = NoteBurst(a, keysAfter)]
    /\ timers' = DebouncedFn(a)
    /\ lastSet' = [lastSet EXCEPT ![a] = NoteEntries(@, data)]
    /\ UNCHANGED <<upserts, env, proc, store, socks, awaiting, saves, done, issued>>

\* the debounce timer callback: timer = null; fn().catch(log)
DebounceFires(i) ==
    /\ proc = "running"
    /\ i \in 1 .. Len(timers)
    /\ timers[i].kind = "debounce"
    /\ Due(timers[i])
    /\ issued < MaxSaves
    /\ LET a == timers[i].owner
       IN  /\ adapters' = [adapters EXCEPT ![a].timer = FALSE]
           /\ saves' = Append(saves, PersistState(adapters, a, "debounce"))
           /\ bursts' = [bursts EXCEPT ![a].open = FALSE, ![a].fired = Bump(@), ![a].age = 0]
    /\ timers' = RemoveAt(timers, i)
    /\ issued' = issued + 1
    /\ UNCHANGED <<upserts, env, proc, store, socks, awaiting, done, lastSet>>

\* ------------------------------------------------------------------------
\* creds.update: the protocol client has assigned the update to the
\* credentials object; the listener is saveCreds
\* ------------------------------------------------------------------------
\* updates: the pairing completed (registered), or one that leaves the
\* modelled fields as they are
CredsUpdates == {"registered", "other"}

AssignCreds(creds, upd) ==
    IF upd = "registered" THEN [creds EXCEPT !.registered = TRUE] ELSE creds

\* faulty variant of saveCreds that issues no save of its own
SaveCredsDeferred(ads, a) == saves

\* saveCreds(): await persistState()
SaveCreds(ads, a) == Append(saves, PersistState(ads, a, "creds"))

CredsUpdate(a, upd) ==
    /\ proc = "running"
    /\ adapters[a].status = "ready"
    /\ socks[a].state = "live"
    /\ issued < MaxSaves
    /\ adapters' = [adapters EXCEPT ![a].creds = AssignCreds(@, upd)]
    /\ saves' = SaveCreds(adapters', a)
    /\ issued' = issued + 1
    /\ UNCHANGED <<upserts, env, proc, store, socks, awaiting, timers, done, bursts, lastSet>>

\* ------------------------------------------------------------------------
\* connectToWhatsApp
\* ------------------------------------------------------------------------
FreeRuns == {a \in Adapters : adapters[a].status = "none"}

NextRun == CHOOSE a \in FreeRuns : \A b \in FreeRuns : a <= b

\* connectToWhatsApp up to its first await: throws without GCP_PROJECT_ID,
\* else calls useSecretManagerAuthState, which issues the read
ConnectToWhatsApp(a) ==
    IF ~env.projectId
    THEN [NoAdapter EXCEPT !.status = "failed", !.answer = 0]
    ELSE [NoAdapter EXCEPT !.status = "loading"]

\* history: who called connectToWhatsApp()
Called(ad, by) == [ad EXCEPT !.caller = by]

\* faulty variant in which a rejected connectToWhatsApp() is ignored
AfterAttemptIgnored(ad) == proc

\* a connectToWhatsApp() that throws rejects main(), whose catch calls
\* process.exit(1), or rejects the promise of the reconnect timer callback,
\* which nothing handles
AfterAttempt(ad) == IF ad.status = "failed" THEN "exited" ELSE proc

\* startServer(): app.listen() calls back (resolve), or the server emits
\* 'error', e.g. for a port in use (reject)
StartServer(listens) == IF listens THEN "resolved" ELSE "rejected"

\* main(): await startServer(), then connectToWhatsApp(); a rejected
\* startServer() rejects main(), whose catch calls process.exit(1) before
\* connectToWhatsApp() is called
Main(listens) ==
    /\ proc = "running"
    /\ \A a \in Adapters : adapters[a].status = "none"
    /\ adapters' = IF StartServer(listens) = "rejected" THEN adapters
                   ELSE [adapters EXCEPT ![1] = Called(ConnectToWhatsApp(1), "main")]
    /\ proc' = IF StartServer(listens) = "rejected" THEN "exited"
               ELSE AfterAttempt(adapters'[1])
    /\ UNCHANGED <<upserts, env, store, socks, awaiting, timers, saves, done, issued, bursts, lastSet>>

\* faulty variant in which the flag is not the new socket's own and is
\* found set
MakeWASocketFlagKept ==
    [NoSock EXCEPT !.state = "live", !.conn = "created", !.pairingCodeRequested = TRUE]

\* makeWASocket(..) and the listeners: a new socket with its own flag
MakeWASocket == [NoSock EXCEPT !.state = "live", !.conn = "created"]

\* connectToWhatsApp() returns its socket: main() registers the message
\* handler on it, the reconnect timer drops it
Returned(sk, caller) == [sk EXCEPT !.handler = (caller = "main")]

\* the read settles: the rest of useSecretManagerAuthState, then
\* connectToWhatsApp up to `await fetchLatestBaileysVersion()`; a read that
\* failed rejects connectToWhatsApp() and goes to its caller
LoadSettles(a, errs) ==
    /\ proc = "running"
    /\ adapters[a].status = "loading"
    /\ \E code \in AccessOutcomes(errs) :
          adapters' = [adapters EXCEPT ![a] =
                          [UseSecretManagerAuthState(a, code) EXCEPT
                              !.answer = code,
                              !.loaded = IF code = 0 THEN Len(store.versions) ELSE 0,
                              !.caller = adapters[a].caller]]
    /\ proc' = AfterAttempt(adapters'[a])
    /\ saves' = IF proc' = "exited" THEN Orphaned(saves) ELSE saves
    /\ UNCHANGED <<upserts, env, store, socks, awaiting, timers, done, issued, bursts, lastSet>>

\* the run has its auth state and waits for the protocol version
AwaitingVersion(a) == adapters[a].status = "ready" /\ socks[a].state = "none"

\* fetchLatestBaileysVersion() settles (it answers with the built-in
\* version when its request fails): the rest of connectToWhatsApp (socket,
\* listeners), then its caller
VersionSettles(a) ==
    /\ proc = "running"
    /\ AwaitingVersion(a)
    /\ socks' = [socks EXCEPT ![a] = Returned(MakeWASocket, adapters[a].caller)]
    /\ UNCHANGED <<upserts, env, proc, store, adapters, awaiting, timers, saves, done, issued,
                   bursts, lastSet>>

\* ------------------------------------------------------------------------
\* connection.update
\* ------------------------------------------------------------------------
\* DisconnectReason.connectionReplaced: the session is in use elsewhere
ConnectionReplaced == 440

\* disconnect causes other than loggedOut: absent (0), connectionReplaced
OtherCauses == {0, ConnectionReplaced}

Updates ==
    {[connection |-> c, qr |-> q, code |-> 0] : c \in {"none", "connecting", "open"}, q \in BOOLEAN}
    \cup {[connection |-> "close", qr |-> q, code |-> d] : q \in BOOLEAN, d \in OtherCauses \cup {LoggedOut}}

\* faulty variant of the pairing condition that does not look at the flag
ShouldRequestPairingUnguarded(i, u) ==
    /\ (u.connection = "connecting" \/ u.qr)
    /\ ~adapters[i].creds.registered

\* faulty variant of the pairing condition that does not look at the
\* credentials
ShouldRequestPairingWhenRegistered(i, u) ==
    /\ (u.connection = "connecting" \/ u.qr)
    /\ ~socks[i].pairingCodeRequested

ShouldRequestPairing(i, u) ==
    /\ (u.connection = "connecting" \/ u.qr)
    /\ ~adapters[i].creds.registered
    /\ ~socks[i].pairingCodeRequested

\* faulty variant of the close branch that reconnects whatever the cause
ReconnectsOnEveryClose(u) == u.connection = "close"

\* faulty variant of the close branch that reconnects after a logout only
ReconnectsAfterLogout(u) == u.connection = "close" /\ u.code = LoggedOut

\* the close branch: reconnect unless the cause is loggedOut
Reconnects(u) == u.connection = "close" /\ u.code # LoggedOut

\* faulty variant in which scheduling the reconnect drops the pending
\* debounced write of the closed socket
SetReconnectTimerCancelling(i) ==
    Append(SelectSeq(timers, LAMBDA t : ~(t.kind = "debounce" /\ t.owner = i)),
           [kind |-> "reconnect", owner |-> i, cur |-> FALSE, elapsed |-> 0])

\* setTimeout(connectToWhatsApp, 5_000)
SetReconnectTimer(i) ==
    Append(timers, [kind |-> "reconnect", owner |-> i, cur |-> FALSE, elapsed |-> 0])

\* history of one delivered event
Delivered(sk, u) ==
    [sk EXCEPT !.conn = IF u.connection = "none" THEN @ ELSE u.connection]

\* history of one handler that ran to its end
Handled(sk, u, armed) ==
    [sk EXCEPT !.owed = IF u.connection = "close" /\ u.code # LoggedOut THEN @ + 1 ELSE @,
               !.scheduled = IF armed THEN @ + 1 ELSE @,
               !.loggedOut = @ \/ (u.connection = "close" /\ u.code = LoggedOut),
               !.armedOnLogout = @ \/ (armed /\ u.connection = "close" /\ u.code = LoggedOut)]

\* the handler from the close branch to its end
FinishHandler(i, u, sk) ==
    /\ timers' = IF Reconnects(u) THEN SetReconnectTimer(i) ELSE timers
    /\ socks' = [socks EXCEPT ![i] = Handled(sk, u, timers' # timers)]

\* faulty variant that leaves the flag unset until the request has settled
RequestingFlagUnset(sk) == [sk EXCEPT !.requests = Bump(@)]

\* pairingCodeRequested = true, before the request is awaited
Requesting(sk) == [sk EXCEPT !.pairingCodeRequested = TRUE, !.requests = Bump(@)]

\* the listener of connection.update runs for event u of socket i
Deliver(i, u) ==
    /\ proc = "running"
    /\ socks[i].state = "live"
    /\ IF ShouldRequestPairing(i, u)
       THEN IF ~env.phone
            THEN \* logged, then return
                 /\ socks' = [socks EXCEPT ![i] = Handled(Delivered(@, u), u, FALSE)]
                 /\ UNCHANGED <<timers, awaiting>>
            ELSE \* pairingCodeRequested = true; await sock.requestPairingCode(..)
                 /\ socks' = [socks EXCEPT ![i] = Requesting(Delivered(@, u))]
                 /\ awaiting' = Append(awaiting, [sock |-> i, update |-> u])
                 /\ UNCHANGED timers
       ELSE /\ FinishHandler(i, u, Delivered(socks[i], u))
            /\ UNCHANGED awaiting
    /\ UNCHANGED <<upserts, env, proc, store, adapters, saves, done, issued, bursts, lastSet>>

\* connection.update of a socket that reports close once, as the last of its
\* connection updates
ConnectionUpdate(i, u) ==
    /\ socks[i].conn # "close"
    /\ Deliver(i, u)

\* faulty variant whose catch leaves the flag set
AfterPairingFlagKept(sk, ok) ==
    IF ok THEN [sk EXCEPT !.succeeded = Bump(@)]
    ELSE [sk EXCEPT !.failures = Bump(@)]

\* faulty variant whose catch also gives up the socket
AfterPairingEndsSocket(sk, ok) ==
    IF ok THEN [sk EXCEPT !.succeeded = Bump(@)]
    ELSE [sk EXCEPT !.pairingCodeRequested = FALSE, !.failures = Bump(@), !.state = "ended"]

\* after the await: log the code, or on a throw reset the flag
AfterPairing(sk, ok) ==
    IF ok THEN [sk EXCEPT !.succeeded = Bump(@)]
    ELSE [sk EXCEPT !.pairingCodeRequested = FALSE, !.failures = Bump(@)]

\* requestPairingCode settles and the suspended handler runs to its end
PairingSettles(k, ok) ==
    /\ proc = "running"
    /\ k \in 1 .. Len(awaiting)
    /\ LET i == awaiting[k].sock
       IN  FinishHandler(i, awaiting[k].update, AfterPairing(socks[i], ok))
    /\ awaiting' = RemoveAt(awaiting, k)
    /\ UNCHANGED <<upserts, env, proc, store, adapters, saves, done, issued, bursts, lastSet>>

\* the reconnect timer callback: connectToWhatsApp()
ReconnectFires(t) ==
    /\ proc = "running"
    /\ t \in 1 .. Len(timers)
    /\ timers[t].kind = "reconnect"
    /\ Due(timers[t])
    /\ FreeRuns # {}
    /\ adapters' = [adapters EXCEPT ![NextRun] = Called(ConnectToWhatsApp(NextRun), "timer")]
    /\ proc' = AfterAttempt(adapters'[NextRun])
    /\ timers' = RemoveAt(timers, t)
    /\ UNCHANGED <<upserts, env, store, socks, awaiting, saves, done, issued, bursts, lastSet>>

\* ------------------------------------------------------------------------
\* Time
\* ------------------------------------------------------------------------
CanFire(t) == IF t.kind = "debounce" THEN issued < MaxSaves ELSE FreeRuns # {}

\* history: an open burst grows older, up to one step beyond the window
Aged(b) ==
    IF b.open THEN [b EXCEPT !.age = Min(@ + TickMs, DEBOUNCE_DELAY_MS + TickMs)] ELSE b

\* time passes while no timer that is due can fire
Tick ==
    /\ proc = "running"
    /\ \E i \in 1 .. Len(timers) : ~Due(timers[i])
    /\ \A i \in 1 .. Len(timers) : ~(Due(timers[i]) /\ CanFire(timers[i]))
    /\ timers' = [i \in DOMAIN timers |->
                     [timers[i] EXCEPT !.elapsed = Min(@ + TickMs, Delay(timers[i]))]]
    /\ bursts' = [a \in Adapters |-> Aged(bursts[a])]
    /\ UNCHANGED <<upserts, env, proc, store, adapters, socks, awaiting, saves, done, issued, lastSet>>

\* ------------------------------------------------------------------------
\* Restart of the process (by the operator or the supervisor) while no save
\* is in flight: what the earlier process held in memory is gone, main()
\* runs again
\* ------------------------------------------------------------------------
\* the runs of the messages.upsert listener of a process that has ended:
\* their continuations never run
Abandoned(us) == [n \in DOMAIN us |-> [us[n] EXCEPT !.gone = TRUE]]

Restart(listens) ==
    /\ FreeRuns # {}
    /\ saves = << >>
    /\ \/ \E a \in Adapters : adapters[a].status \in {"ready", "failed"}
       \/ proc = "exited" /\ \E a \in Adapters : adapters[a].status = "gone"
    /\ adapters' = [b \in Adapters |->
                       IF b = NextRun /\ StartServer(listens) = "resolved"
                       THEN Called(ConnectToWhatsApp(NextRun), "main")
                       ELSE IF b < NextRun THEN [NoAdapter EXCEPT !.status = "gone"]
                       ELSE adapters[b]]
    /\ proc' = IF StartServer(listens) = "rejected" THEN "exited"
               ELSE IF adapters'[NextRun].status = "failed" THEN "exited" ELSE "running"
    /\ socks' = [b \in Adapters |-> NoSock]
    /\ awaiting' = << >>
    /\ timers' = << >>
    /\ bursts' = [b \in Adapters |-> NoBurst]
    /\ lastSet' = [b \in Adapters |-> NeverSet]
    /\ upserts' = Abandoned(upserts)
    /\ UNCHANGED <<env, store, saves, done, issued>>

\* ------------------------------------------------------------------------
\* Specifications
\* ------------------------------------------------------------------------
AuthTriples == {t \in Triples : t[1] = "sender-key" /\ t[2] = "x" /\ t[3] \in {1, Null}}

\* one run of a configured process: the adapter, its timer and the store
NextAuth ==
    \/ \E listens \in BOOLEAN : Main(listens)
    \/ \E a \in Adapters : LoadSettles(a, OtherStoreErrors)
    \/ \E a \in Adapters : VersionSettles(a)
    \/ \E a \in Adapters : \E t \in AuthTriples : KeysSet(a, <<t>>)
    \/ \E a \in Adapters : \E upd \in CredsUpdates : CredsUpdate(a, upd)
    \/ \E i \in 1 .. MaxSaves : DebounceFires(i)
    \/ Tick
    \/ \E i \in 1 .. MaxSaves : FirstAddSettles(i, OtherStoreErrors)
    \/ \E i \in 1 .. MaxSaves : CreateSettles(i, OtherStoreErrors)
    \/ \E i \in 1 .. MaxSaves : SecondAddSettles(i, OtherStoreErrors)

SpecAuth == InitConfigured /\ [][NextAuth]_vars

\* runs and restarts of a configured process against a store whose writes
\* fail only for a missing secret
NextLoad ==
    \/ \E listens \in BOOLEAN : Main(listens)
    \/ \E listens \in BOOLEAN : Restart(listens)
    \/ \E a \in Adapters : LoadSettles(a, OtherStoreErrors)
    \/ \E a \in Adapters : VersionSettles(a)
    \/ \E a \in Adapters : \E t \in AuthTriples : KeysSet(a, <<t>>)
    \/ \E a \in Adapters : \E upd \in CredsUpdates : CredsUpdate(a, upd)
    \/ \E i \in 1 .. MaxSaves : DebounceFires(i)
    \/ Tick
    \/ \E i \in 1 .. MaxSaves : FirstAddSettles(i, {})
    \/ \E i \in 1 .. MaxSaves : CreateSettles(i, {})
    \/ \E i \in 1 .. MaxSaves : SecondAddSettles(i, {})

SpecLoad == InitConfigured /\ [][NextLoad]_vars

\* one adapter under set() calls over every category, id and value, up to
\* the moment its debounce timer runs out
NextKeys ==
    \/ \E listens \in BOOLEAN : Main(listens)
    \/ \E a \in Adapters : LoadSettles(a, {})
    \/ \E a \in Adapters : VersionSettles(a)
    \/ \E a \in Adapters : \E d \in DataOver(Triples) : KeysSet(a, d)
    \/ Tick

SpecKeys == InitConfigured /\ [][NextKeys]_vars

\* one adapter under set() calls that store or delete one buffer under
\* every category and id, up to the moment its debounce timer runs out
SetTriples == {t \in Triples : t[3] \in {1, Null}}

NextSet ==
    \/ \E listens \in BOOLEAN : Main(listens)
    \/ \E a \in Adapters : LoadSettles(a, {})
    \/ \E a \in Adapters : VersionSettles(a)
    \/ \E a \in Adapters : \E d \in DataOver(SetTriples) : KeysSet(a, d)
    \/ Tick

SpecSet == InitConfigured /\ [][NextSet]_vars

\* the connection lifecycle of one process from its start, in every
\* configuration of its environment: connection events, pairing, reconnects
\* and the completion of the pairing, while the store has not answered the
\* saves
Next ==
    \/ \E listens \in BOOLEAN : Main(listens)
    \/ \E a \in Adapters : LoadSettles(a, OtherStoreErrors)
    \/ \E a \in Adapters : VersionSettles(a)
    \/ \E i \in Adapters : \E u \in Updates : ConnectionUpdate(i, u)
    \/ \E k \in Adapters : \E ok \in BOOLEAN : PairingSettles(k, ok)
    \/ \E t \in Adapters : ReconnectFires(t)
    \/ \E a \in Adapters : ~adapters[a].creds.registered /\ CredsUpdate(a, "registered")
    \/ Tick

Spec == Init /\ [][Next]_vars

\* credential updates of every socket in every connection state (created,
\* connecting, open, closed for any cause, closed by a logout), with the key
\* updates and the debounce timer of the first adapter, a pairing that
\* succeeds and the reconnect that a close arms, while the store has not
\* answered the saves
ConnTriples == {t \in AuthTriples : t[3] # Null}

NextCreds ==
    \/ \E listens \in BOOLEAN : Main(listens)
    \/ \E a \in Adapters : LoadSettles(a, {})
    \/ \E a \in Adapters : VersionSettles(a)
    \/ \E i \in Adapters : \E u \in Updates : ConnectionUpdate(i, u)
    \/ \E k \in Adapters : PairingSettles(k, TRUE)
    \/ \E t \in Adapters : ReconnectFires(t)
    \/ \E t \in ConnTriples : KeysSet(1, <<t>>)
    \/ \E a \in Adapters : \E upd \in CredsUpdates : CredsUpdate(a, upd)
    \/ \E i \in Adapters : DebounceFires(i)
    \/ Tick

SpecCreds == InitConfigured /\ [][NextCreds]_vars

\* the adapter of the first socket through the close of its socket and the
\* reconnects that follow: its key and credential updates, its debounce
\* timer and the reconnect timers, while the store has not answered the saves
LifecycleUpdates ==
    {u \in Updates : ~u.qr /\ u.connection \in {"open", "close"} /\ u.code \in {0, LoggedOut}}

NextDebounce ==
    \/ \E listens \in BOOLEAN : Main(listens)
    \/ \E a \in Adapters : LoadSettles(a, {})
    \/ \E a \in Adapters : VersionSettles(a)
    \/ \E i \in Adapters : \E u \in LifecycleUpdates : ConnectionUpdate(i, u)
    \/ \E t \in 1 .. MaxAdapters + 1 : ReconnectFires(t)
    \/ \E t \in ConnTriples : KeysSet(1, <<t>>)
    \/ \E upd \in CredsUpdates : CredsUpdate(1, upd)
    \/ \E i \in 1 .. MaxAdapters + 1 : DebounceFires(i)
    \/ Tick

SpecDebounce == InitConfigured /\ [][NextDebounce]_vars

\* the connection lifecycle of a paired session whose sockets may report
\* 'close' again after they have closed; a socket reports at most
\* MaxAdapters closes
RepeatedUpdates == {u \in LifecycleUpdates : u.code = 0}

NextCloses ==
    \/ \E listens \in BOOLEAN : Main(listens)
    \/ \E a \in Adapters : LoadSettles(a, {})
    \/ \E a \in Adapters : VersionSettles(a)
    \/ \E i \in Adapters : \E u \in RepeatedUpdates :
          socks[i].owed < MaxAdapters /\ Deliver(i, u)
    \/ \E t \in 1 .. MaxAdapters * MaxAdapters : ReconnectFires(t)
    \/ Tick

SpecCloses == InitConfigured /\ [][NextCloses]_vars

\* a session from its first pairing on: the pairing succeeds, credential
\* updates are saved, the connection closes and is re-established, the
\* process is restarted
SessionUpdates ==
    {u \in Updates : ~u.qr /\ u.connection \in {"connecting", "open", "close"} /\ u.code = 0}

NextSession ==
    \/ \E listens \in BOOLEAN : Main(listens)
    \/ \E listens \in BOOLEAN : Restart(listens)
    \/ \E a \in Adapters : LoadSettles(a, {})
    \/ \E a \in Adapters : VersionSettles(a)
    \/ \E i \in Adapters : \E u \in SessionUpdates : ConnectionUpdate(i, u)
    \/ \E k \in Adapters : PairingSettles(k, TRUE)
    \/ \E t \in Adapters : ReconnectFires(t)
    \/ \E a \in Adapters : \E upd \in CredsUpdates : CredsUpdate(a, upd)
    \/ Tick
    \/ \E i \in 1 .. MaxSaves : FirstAddSettles(i, {})
    \/ \E i \in 1 .. MaxSaves : CreateSettles(i, {})
    \/ \E i \in 1 .. MaxSaves : SecondAddSettles(i, {})

SpecSession == InitConfigured /\ [][NextSession]_vars

\* ------------------------------------------------------------------------
\* Properties
\* ------------------------------------------------------------------------
LiveSaves == {saves[i] : i \in {j \in 1 .. Len(saves) : ~saves[j].dead}}

DebounceTimers(a) == {i \in 1 .. Len(timers) : timers[i].kind = "debounce" /\ timers[i].owner = a}

\* C1 (write coalescing): while a burst of keys.set() is open, i.e. every
\* call arrived before the timer armed by the previous one fired, exactly one
\* debounce timer is pending and no debounced save has been issued for the
\* burst; once its timer has fired exactly one debounced save has been issued
\* for it, and what that save serialised is the credentials with the key
\* mirror as it stood after the last set() of the burst.
C1_WriteCoalescing ==
    /\ \A a \in Adapters :
          /\ bursts[a].open => bursts[a].fired = 0
          /\ (bursts[a].open /\ proc = "running") => Cardinality(DebounceTimers(a)) = 1
          /\ (~bursts[a].open /\ bursts[a].sets > 0) =>
                (bursts[a].fired = 1 /\ DebounceTimers(a) = {})
    /\ \A i \in 1 .. Len(saves) :
          saves[i].via = "debounce" =>
             /\ saves[i].blob = saves[i].burstBlob
             /\ saves[i].payload = Stringify(saves[i].burstBlob.creds, saves[i].burstBlob.keys)

\* a burst of two or more set() calls, the last of which changed the mirror,
\* has been written by its one debounced save, which is in flight
C1_Witness ==
    \E a \in Adapters :
       /\ ~bursts[a].open /\ bursts[a].sets >= 2 /\ bursts[a].changed /\ bursts[a].fired = 1
       /\ \E i \in 1 .. Len(saves) : saves[i].via = "debounce" /\ saves[i].adapter = a

InFlight(i) == Cardinality({k \in 1 .. Len(awaiting) : awaiting[k].sock = i})

\* C2 (as claimed): over the lifetime of one socket no more than one
\* requestPairingCode call is issued.
C2_ExactlyOneRequest == \A i \in Adapters : socks[i].requests <= 1

\* C2 (amended): a socket has at most one pairing request that is pending or
\* has succeeded, and its flag is set exactly while it has one; a second
\* request is issued only after an earlier one was rejected; without
\* PHONE_NUMBER no request is issued.
C2_OneRequestUnlessRejected ==
    \A i \in Adapters :
       /\ InFlight(i) + socks[i].succeeded <= 1
       /\ socks[i].pairingCodeRequested = (InFlight(i) + socks[i].succeeded = 1)
       /\ socks[i].requests >= 2 => socks[i].failures >= 1
       /\ ~env.phone => socks[i].requests = 0

\* a socket whose first pairing request was rejected and whose second succeeded
C2_Witness ==
    \E i \in Adapters :
       socks[i].requests = 2 /\ socks[i].failures = 1 /\ socks[i].succeeded = 1

\* C3 (as claimed): every close with a cause other than loggedOut whose
\* handler has run has armed exactly one reconnect timer.
C3_EveryOtherCloseReconnects ==
    \A i \in Adapters : socks[i].scheduled = socks[i].owed

Started == Cardinality({a \in Adapters : adapters[a].status # "none"})

ReconnectTimers == {t \in 1 .. Len(timers) : timers[t].kind = "reconnect"}

RECURSIVE TimersArmed(_)
TimersArmed(S) ==
    IF S = {} THEN 0
    ELSE LET a == CHOOSE x \in S : TRUE
         IN  socks[a].scheduled + TimersArmed(S \ {a})

\* C4 (logout is terminal): the handler of a close whose cause is loggedOut
\* arms no reconnect timer, a socket closed by a logout has armed none, and
\* every run of connectToWhatsApp() after the first was started by a timer
\* that a close with another cause armed.
C4_LogoutNeverReconnects ==
    /\ \A i \in Adapters :
          /\ ~socks[i].armedOnLogout
          /\ socks[i].loggedOut => socks[i].scheduled = 0
    /\ Started + Cardinality(ReconnectTimers) <= 1 + TimersArmed(Adapters)

\* the socket of a reconnect was closed by a logout; no timer is pending
C4_Witness ==
    \E i \in Adapters :
       i > 1 /\ socks[i].loggedOut /\ socks[i].conn = "close" /\ timers = << >>

\* the step appends one save of adapter a, issued by saveCreds() with its
\* first add-version call already made and the credentials and key mirror of
\* the moment as payload, and leaves the saves in flight and every timer as
\* they were
SavedAtOnce(a) ==
    /\ Len(saves') = Len(saves) + 1
    /\ SubSeq(saves', 1, Len(saves)) = saves
    /\ saves'[Len(saves')].adapter = a
    /\ saves'[Len(saves')].via = "creds"
    /\ saves'[Len(saves')].pc = "add1"
    /\ saves'[Len(saves')].payload = Stringify(adapters'[a].creds, adapters'[a].keys)
    /\ saves'[Len(saves')].afterLogout = socks[a].loggedOut
    /\ timers' = timers

\* C5 (credentials are saved at once): a socket that is live can deliver
\* every credential update whatever its connection state, the timers pending
\* and the saves in flight are, and every step that delivers a credential
\* update, of either kind and in any state, issues a save whose first
\* add-version call is already made, with the updated credentials and the
\* current key mirror as payload; it leaves every timer and every other save
\* in flight as they were.
C5_CredsSavedAtOnce ==
    /\ [](\A a \in Adapters : \A upd \in CredsUpdates :
            (/\ proc = "running"
             /\ adapters[a].status = "ready"
             /\ socks[a].state = "live"
             /\ issued < MaxSaves) =>
               ENABLED (CredsUpdate(a, upd) /\ SavedAtOnce(a)))
    /\ [][\A a \in Adapters : \A upd \in CredsUpdates :
            CredsUpdate(a, upd) => SavedAtOnce(a)]_vars

\* two saves of the credentials are in flight.  The first was issued after
\* the socket of its adapter had been closed by a logout.  The second was
\* issued later still, on an adapter whose socket had been closed for another
\* cause before that; it carries the keys of a keys.set() of that adapter,
\* whose debounce timer is still pending.
C5_Witness ==
    \E a, b \in Adapters : \E i, j \in 1 .. Len(saves) :
       /\ saves[i].via = "creds" /\ saves[i].adapter = a /\ saves[i].pc = "add1"
       /\ saves[i].afterLogout
       /\ socks[a].loggedOut /\ socks[a].conn = "close"
       /\ saves[j].via = "creds" /\ saves[j].adapter = b /\ saves[j].pc = "add1"
       /\ saves[j].seq > saves[i].seq
       /\ ~saves[j].afterLogout
       /\ ~socks[b].loggedOut /\ socks[b].conn = "close"
       /\ saves[j].blob.keys # EmptyKeys
       /\ saves[j].blob.keys = adapters[b].keys
       /\ \E t \in DebounceTimers(b) : ~Due(timers[t])

\* C6 (as claimed): get(category, ids) returns an entry for id only if the
\* most recent set() of that (category, id) had a non-null value, and
\* returns that value.
C6_GetOnlyWhatWasSet ==
    \A a \in Adapters : \A type \in Categories : \A id \in Ids :
       (adapters[a].status = "ready" /\ id \in DOMAIN Get(adapters[a].keys, type, {id})) =>
          /\ lastSet[a][<<type, id>>] \notin {Never, Null}
          /\ Get(adapters[a].keys, type, {id})[id] = lastSet[a][<<type, id>>]

AdapterSettles(a) ==
    adapters[a].status = "loading" /\ adapters'[a].status \in {"ready", "failed"}

\* C7 (load on NOT_FOUND): when the store answers NOT_FOUND to the read of
\* the latest version, the initialisation succeeds with blank credentials
\* and an empty key mapping, and the run goes on to the protocol version; on
\* any other error no adapter and no socket is produced and the failure
\* reaches the caller.
C7_NotFoundIsBlank ==
    [][\A a \in Adapters :
         AdapterSettles(a) =>
            /\ adapters'[a].answer = GRPC_NOT_FOUND =>
                  /\ adapters'[a].status = "ready"
                  /\ adapters'[a].creds = InitAuthCreds(a)
                  /\ adapters'[a].keys = EmptyKeys
                  /\ proc' = "running" /\ AwaitingVersion(a)'
            /\ adapters'[a].answer \notin {0, GRPC_NOT_FOUND} =>
                  /\ adapters'[a].status = "failed"
                  /\ socks'[a].state = "none"
                  /\ proc' = "exited"]_vars

\* a restarted process initialised blank from a secret that exists but has
\* no version
C7_Witness ==
    /\ store.exists
    /\ \E a \in Adapters :
          a > 1 /\ adapters[a].status = "ready" /\ adapters[a].answer = GRPC_NOT_FOUND

\* C8 (round trip): an initialisation that reads the latest version yields
\* the credentials and the key mapping that the save which added that version
\* serialised.
C8_RoundTrip ==
    [][\A a \in Adapters :
         (AdapterSettles(a) /\ adapters'[a].answer = 0) =>
            /\ adapters'[a].status = "ready"
            /\ adapters'[a].creds = store.blobs[Len(store.blobs)].creds
            /\ adapters'[a].keys = store.blobs[Len(store.blobs)].keys]_vars

\* a restarted process has loaded registered credentials and a key
C8_Witness ==
    \E a \in Adapters :
       /\ adapters[a].status = "ready" /\ adapters[a].loaded > 0
       /\ adapters[a].creds.registered
       /\ adapters[a].keys # EmptyKeys
       /\ adapters[a].creds = store.blobs[adapters[a].loaded].creds
       /\ adapters[a].keys = store.blobs[adapters[a].loaded].keys

SaveRecords == LiveSaves \cup done

FirstAnswer(r) == IF Len(r.codes) >= 1 THEN r.codes[1] ELSE 0

\* C9 (create and retry once): a save whose first add-version was answered
\* NOT_FOUND has called createSecret once; it calls add-version a second
\* time exactly when the create succeeded, never a third time; and when
\* the create and the retry succeed it resolves having added exactly one
\* version, which holds its payload.
C9_CreateThenRetryOnce ==
    /\ \A r \in SaveRecords :
          FirstAnswer(r) = GRPC_NOT_FOUND =>
             /\ r.creates = 1
             /\ r.adds = IF Len(r.codes) >= 2 /\ r.codes[2] = 0 THEN 2 ELSE 1
             /\ r.codes = <<GRPC_NOT_FOUND, 0, 0>> => (r.pc = "ok" /\ r.added = 1)
    /\ \A r \in done : r.codes = <<GRPC_NOT_FOUND, 0, 0>> => r.landed

C9_Witness == \E r \in done : r.codes = <<GRPC_NOT_FOUND, 0, 0>> /\ r.pc = "ok"

\* C10 (failures propagate): a save rejects with the store's error, without
\* calling createSecret, when its first add-version fails with an error
\* other than NOT_FOUND; it rejects with the error of a failed create or of
\* a failed retried add-version; a save makes at most two add-version calls
\* and one create call, and a save that rejected added no version.
C10_FailuresPropagate ==
    \A r \in SaveRecords :
       /\ r.adds <= 2 /\ r.creates <= 1 /\ Len(r.codes) <= 3
       /\ FirstAnswer(r) \notin {0, GRPC_NOT_FOUND} =>
             (r.pc = "failed" /\ r.err = r.codes[1] /\ r.creates = 0 /\ r.adds = 1)
       /\ (Len(r.codes) >= 2 /\ r.codes[2] # 0) =>
             (r.pc = "failed" /\ r.err = r.codes[2] /\ r.adds = 1)
       /\ (Len(r.codes) = 3 /\ r.codes[3] # 0) => (r.pc = "failed" /\ r.err = r.codes[3])
       /\ r.pc = "failed" => r.added = 0

\* a save has rejected on its retried add-version while the store holds a
\* version added by another save
C10_Witness ==
    \E r \in done :
       /\ r.pc = "failed" /\ Len(r.codes) = 3 /\ r.added = 0
       /\ Len(store.versions) > 0

\* a save issued by the debounce callback rejects in this step
DebouncedSaveRejects ==
    /\ proc = "running"
    /\ Len(saves') < Len(saves)
    /\ \E r \in done' : r.via = "debounce" /\ r.pc = "failed"

\* C11 (debounced failures are swallowed): the step in which a debounced
\* save rejects, whatever the store's error, leaves the process running and
\* every adapter (credentials, key mirror) and every timer as they were, so
\* that set() is still accepted on the adapter and arms a timer.
C11_DebouncedFailureSwallowed ==
    [][DebouncedSaveRejects =>
          /\ proc' = "running"
          /\ adapters' = adapters
          /\ timers' = timers
          /\ \A r \in done' : adapters'[r.adapter].status = "ready"]_vars

\* after a debounced save was rejected the process runs and a later burst
\* of set() has its timer pending
C11_Witness ==
    /\ proc = "running"
    /\ \E r \in done :
          /\ r.via = "debounce" /\ r.pc = "failed" /\ r.err \in OtherStoreErrors
          /\ bursts[r.adapter].open /\ bursts[r.adapter].fired = 0
          /\ DebounceTimers(r.adapter) # {}
          /\ saves = << >>

\* C12 (as claimed): while the debounced path can still issue saves, no
\* key mutation of an adapter's mirror has been waiting for longer than one
\* debounce window for the save that includes it.
C12_BoundedDivergence ==
    \A a \in Adapters :
       (bursts[a].open /\ issued < MaxSaves /\ proc = "running") =>
          bursts[a].age <= DEBOUNCE_DELAY_MS

\* C13 (as claimed): of two versions added by debounced saves of one
\* adapter that serialised different blobs, the one serialised later is the
\* later version.
C13_DebouncedWritesInOrder ==
    \A i, j \in 1 .. Len(store.order) :
       ( /\ i < j
         /\ store.order[i].via = "debounce" /\ store.order[j].via = "debounce"
         /\ store.order[i].adapter = store.order[j].adapter
         /\ store.blobs[i] # store.blobs[j] )
       => store.order[i].seq < store.order[j].seq

\* the run a of connectToWhatsApp(), started by a reconnect timer, completes
ReconnectCompletes(a) ==
    adapters[a].caller = "timer" /\ AdapterSettles(a) /\ adapters'[a].status = "ready"

\* C14 (a reconnect is a fresh start): the run started by a reconnect timer
\* reads the store again and takes its credentials and keys from the answer
\* (blank on NOT_FOUND, the latest version otherwise), not from the earlier
\* adapter; once the protocol version has arrived it builds a new socket
\* whose pairing flag is false and which has issued no request, and both
\* steps leave the earlier sockets, their flags and their adapters alone.
C14_ReconnectIsFreshStart ==
    [][\A a \in Adapters :
         /\ ReconnectCompletes(a) =>
               /\ adapters'[a].answer = GRPC_NOT_FOUND =>
                     (adapters'[a].creds = InitAuthCreds(a) /\ adapters'[a].keys = EmptyKeys)
               /\ adapters'[a].answer = 0 =>
                     /\ adapters'[a].creds = store.blobs[Len(store.blobs)].creds
                     /\ adapters'[a].keys = store.blobs[Len(store.blobs)].keys
               /\ AwaitingVersion(a)'
               /\ \A b \in Adapters \ {a} : socks'[b] = socks[b] /\ adapters'[b] = adapters[b]
         /\ (adapters[a].caller = "timer" /\ VersionSettles(a)) =>
               /\ socks[a].state = "none" /\ socks'[a].state = "live"
               /\ ~socks'[a].pairingCodeRequested /\ socks'[a].requests = 0
               /\ adapters' = adapters
               /\ \A b \in Adapters \ {a} : socks'[b] = socks[b]]_vars

\* the socket of a reconnect is live with its flag false while the flag of
\* the closed socket before it is set and the credentials held by the
\* earlier adapter, registered but not yet stored, were not taken over
C14_Witness ==
    \E a \in Adapters :
       /\ a > 1 /\ adapters[a].caller = "timer"
       /\ socks[a].state = "live" /\ ~socks[a].pairingCodeRequested
       /\ socks[a - 1].conn = "close" /\ socks[a - 1].pairingCodeRequested
       /\ adapters[a - 1].creds.registered /\ ~adapters[a].creds.registered

\* the version read by adapter a was added after a version holding
\* registered credentials, or is one
LoadedAfterRegistration(a) ==
    /\ adapters[a].status = "ready"
    /\ \E k \in 1 .. adapters[a].loaded : store.blobs[k].creds.registered

\* C15 (as claimed): an adapter initialised after the registered credentials
\* were saved has loaded registered credentials, and its socket has issued
\* no pairing request.
C15_RegisteredSessionIsLoaded ==
    \A a \in Adapters :
       LoadedAfterRegistration(a) =>
          /\ store.blobs[adapters[a].loaded].creds.registered
          /\ socks[a].requests = 0

\* C16 (startup failures are fatal): a connectToWhatsApp() called by main()
\* fails when GCP_PROJECT_ID is missing or the store answers the first read
\* with an error other than NOT_FOUND; when it has failed the process has
\* exited with status 1 and the run has produced no socket and registered
\* no message handler.
C16_StartupFailureIsFatal ==
    \A a \in Adapters :
       adapters[a].caller = "main" =>
          /\ ~env.projectId => adapters[a].status = "failed"
          /\ adapters[a].answer \notin {0, GRPC_NOT_FOUND} => adapters[a].status = "failed"
          /\ adapters[a].status = "failed" =>
                (proc = "exited" /\ socks[a].state = "none" /\ ~socks[a].handler)

\* the first read of the store was refused and the process has exited
C16_Witness ==
    /\ adapters[1].caller = "main" /\ adapters[1].status = "failed"
    /\ adapters[1].answer \in OtherStoreErrors
    /\ proc = "exited" /\ \A a \in Adapters : socks[a].state = "none"

\* every pairing request of socket i so far was rejected, none is pending
OnlyRejected(i) ==
    socks[i].failures >= 1 /\ InFlight(i) = 0 /\ socks[i].succeeded = 0

PairingEvents == {u \in Updates : u.connection = "connecting" \/ u.qr}

\* C17 (retry after a rejected request): when the pairing requests of a
\* socket were all rejected its flag is false, and while the socket is open
\* for events and its credentials are unregistered, every connection update
\* with state 'connecting' or a QR hint issues a new request and sets the flag.
C17_RejectedRequestIsRetried ==
    \A i \in Adapters :
       OnlyRejected(i) =>
          /\ ~socks[i].pairingCodeRequested
          /\ (proc = "running" /\ socks[i].conn # "close" /\ ~adapters[i].creds.registered) =>
                \A u \in PairingEvents :
                   ENABLED ( /\ ConnectionUpdate(i, u)
                             /\ socks'[i].pairingCodeRequested
                             /\ Len(awaiting') = Len(awaiting) + 1 )

\* the second request of a socket is pending after the first was rejected
C17_Witness ==
    \E i \in Adapters :
       /\ socks[i].failures = 1 /\ socks[i].requests = 2 /\ InFlight(i) = 1
       /\ socks[i].pairingCodeRequested

\* a pending requestPairingCode is rejected in this step
PairingRejects == \E k \in 1 .. Len(awaiting) : PairingSettles(k, FALSE)

\* C18 (a rejected request changes the flag only): the step in which a
\* pairing request is rejected resets the flag of its socket and leaves the
\* process running, the socket live, every adapter, every other socket, the
\* store and the saves as they were; it arms a timer only if the event that
\* had requested the pairing was itself a close, for which the close branch
\* then runs as after a successful request.
C18_RejectedRequestChangesFlagOnly ==
    [][PairingRejects =>
          \E k \in 1 .. Len(awaiting) :
             LET i == awaiting[k].sock
                 u == awaiting[k].update
             IN  /\ awaiting' = RemoveAt(awaiting, k)
                 /\ ~socks'[i].pairingCodeRequested
                 /\ socks'[i].state = socks[i].state
                 /\ \A j \in Adapters \ {i} : socks'[j] = socks[j]
                 /\ proc' = proc /\ adapters' = adapters
                 /\ store' = store /\ saves' = saves /\ issued' = issued
                 /\ u.connection # "close" => timers' = timers
                 /\ Len(timers') = Len(timers) +
                       (IF u.connection = "close" /\ u.code # LoggedOut THEN 1 ELSE 0)]_vars

\* a socket whose request was rejected is live and connecting; nothing is
\* pending: no request, no timer, no save
C18_Witness ==
    \E i \in Adapters :
       /\ socks[i].failures >= 1 /\ InFlight(i) = 0 /\ ~socks[i].pairingCodeRequested
       /\ socks[i].state = "live" /\ socks[i].conn = "connecting"
       /\ proc = "running" /\ timers = << >> /\ saves = << >>

\* the close events whose cause is connectionReplaced
ReplacedCloses == {u \in Updates : u.connection = "close" /\ u.code = ConnectionReplaced}

\* C19 (as claimed): the handler of a close whose cause is connectionReplaced
\* arms no reconnect timer, so that no connectToWhatsApp() follows it until
\* the process is restarted.
C19_ReplacedNeverReconnects ==
    [][\A i \in Adapters : \A u \in ReplacedCloses :
          ConnectionUpdate(i, u) => timers' = timers]_vars

\* the latest version of the secret is the mirror state of adapter a
StoreHasState(a) ==
    /\ Len(store.versions) > 0
    /\ store.versions[Len(store.versions)] = Stringify(adapters[a].creds, adapters[a].keys)

\* something of adapter a is still to reach the store: a debounce timer is
\* armed or a save is in flight
WritePending(a) ==
    \/ DebounceTimers(a) # {}
    \/ \E s \in LiveSaves : s.adapter = a

\* C20 (as claimed): after a debounced save was rejected by the store, the
\* mirror state is already the latest version of the secret or a write of
\* the adapter is still pending (a timer armed or a save in flight), so that
\* the state reaches the store with no further set() or credential update.
C20_FailedSaveIsRetried ==
    \A r \in done :
       (proc = "running" /\ r.via = "debounce" /\ r.pc = "failed") =>
          StoreHasState(r.adapter) \/ WritePending(r.adapter)

\* the debounced saves and the credential saves on record
CredsSaveRecords == {r \in SaveRecords : r.via = "creds"}

\* the answers of the store to the calls of save r so far, the last one apart
EarlierAnswers(r) == {r.codes[k] : k \in 1 .. (Len(r.codes) - 1)}

\* C21 (permission errors on a credential save are fatal): a credential
\* save that the store answered with PERMISSION_DENIED has rejected with that
\* error, which was the answer to its last call (no call follows it) and
\* added no version; the process has exited on it, and no continuation of
\* any other save runs any more.
C21_PermissionErrorIsFatal ==
    \A r \in CredsSaveRecords :
       (\E k \in 1 .. Len(r.codes) : r.codes[k] = PermissionDenied) =>
          /\ r.pc = "failed" /\ r.err = PermissionDenied
          /\ r.codes[Len(r.codes)] = PermissionDenied
          /\ PermissionDenied \notin EarlierAnswers(r)
          /\ r.added = 0
          /\ r \in done
          /\ proc = "exited"
          /\ LiveSaves = {}

\* the process has exited on a credential save refused on its first call,
\* while a debounce timer was pending
C21_Witness ==
    /\ proc = "exited"
    /\ \E r \in done :
          /\ r.via = "creds" /\ r.pc = "failed" /\ r.codes = <<PermissionDenied>>
          /\ DebounceTimers(r.adapter) # {}

\* the sockets that have not reported a close
OpenSockets == {i \in Adapters : socks[i].state = "live" /\ socks[i].conn # "close"}

\* C22 (a logout ends the session, not the process): once the handler of a
\* close whose cause is loggedOut has run, the process is running, no socket
\* is left that has not closed, no reconnect timer is pending and no further
\* run of connectToWhatsApp() has been started; and the step that handles
\* such a close leaves the process and the timers as they were.
C22_LogoutKeepsProcessRunning ==
    /\ \A i \in Adapters :
          socks[i].loggedOut =>
             /\ proc = "running"
             /\ OpenSockets = {}
             /\ ReconnectTimers = {}
             /\ \A b \in Adapters : b > i => adapters[b].status = "none"
    /\ \A i \in Adapters :
          (proc = "running" /\ i \in OpenSockets) =>
             \A q \in BOOLEAN :
                ENABLED ( /\ ConnectionUpdate(i, [connection |-> "close", qr |-> q,
                                                  code |-> LoggedOut])
                          /\ proc' = "running"
                          /\ timers' = timers )

\* the first socket, paired, was closed by a logout; the process runs with
\* nothing pending
C22_Witness ==
    /\ proc = "running"
    /\ socks[1].loggedOut /\ socks[1].conn = "close"
    /\ adapters[1].creds.registered
    /\ timers = << >> /\ awaiting = << >>

\* C23 (one request in flight per socket): a socket never has two
\* requestPairingCode calls pending; while one is pending its flag is set and
\* no connection update delivered to the socket, whatever its state and QR
\* hint, issues another.
C23_OneRequestInFlight ==
    \A i \in Adapters :
       /\ InFlight(i) <= 1
       /\ InFlight(i) = 1 =>
             /\ socks[i].pairingCodeRequested
             /\ \A u \in Updates :
                   ~ENABLED (ConnectionUpdate(i, u) /\ Len(awaiting') > Len(awaiting))

\* while the request issued on 'connecting' is pending, the socket has
\* reported 'open'
C23_Witness ==
    \E k \in 1 .. Len(awaiting) :
       /\ awaiting[k].update.connection = "connecting"
       /\ socks[awaiting[k].sock].conn = "open"
       /\ socks[awaiting[k].sock].requests = 1
       /\ ~adapters[awaiting[k].sock].creds.registered

\* a connection.update handler issues a pairing request in this step
RequestIssued == Len(awaiting') = Len(awaiting) + 1

\* C24 (when a pairing code is requested): the event that issues a pairing
\* request has state 'connecting' or carries a QR hint, and at that moment
\* the credentials of its socket are unregistered, the flag of the socket is
\* false and PHONE_NUMBER is set; the step sets the flag.  Without
\* PHONE_NUMBER no socket ever issues a request and every flag stays false.
C24_RequestOnlyWhenDue ==
    /\ [](~env.phone =>
             \A i \in Adapters : socks[i].requests = 0 /\ ~socks[i].pairingCodeRequested)
    /\ [][RequestIssued =>
             LET r == awaiting'[Len(awaiting')]
             IN  /\ r.update.connection = "connecting" \/ r.update.qr
                 /\ ~adapters[r.sock].creds.registered
                 /\ ~socks[r.sock].pairingCodeRequested
                 /\ socks'[r.sock].pairingCodeRequested
                 /\ env.phone]_vars

\* a request issued by an 'open' event that carried a QR hint is pending
C24_Witness ==
    \E k \in 1 .. Len(awaiting) :
       /\ awaiting[k].update.connection = "open" /\ awaiting[k].update.qr
       /\ socks[awaiting[k].sock].pairingCodeRequested
       /\ env.phone

\* get(category, [id]) on the mirror `keys` shows what entry e of a set() asked for
Observes(keys, e) ==
    IF e[3] # Null
    THEN e[2] \in DOMAIN Get(keys, e[1], {e[2]}) /\ Get(keys, e[1], {e[2]})[e[2]] = e[3]
    ELSE e[2] \notin DOMAIN Get(keys, e[1], {e[2]})

\* entry k of data is the last of the call to write its mirror key
LastWriter(d, k) ==
    \A j \in (k + 1) .. Len(d) : CompositeKey(d[j][1], d[j][2]) # CompositeKey(d[k][1], d[k][2])

\* set() returns having armed the debounce timer of its adapter and having
\* made no store call
SetReturnsUnwritten(a) ==
    /\ saves' = saves /\ store' = store /\ issued' = issued /\ done' = done
    /\ Cardinality(DebounceTimers(a)') = 1
    /\ \A t \in DebounceTimers(a)' : timers'[t].elapsed = 0

\* the data objects handed to set() in SpecSet
SetInputs == DataOver(SetTriples)

\* C25 (as claimed): when set(data) returns, a get() of every entry of data
\* shows its upsert or its deletion, and set() has made no store call.
C25_SetIsVisibleAtOnce ==
    \A a \in Adapters :
       (proc = "running" /\ adapters[a].status = "ready" /\ socks[a].state = "live") =>
          \A d \in SetInputs :
             ENABLED ( /\ KeysSet(a, d)
                       /\ \A k \in 1 .. Len(d) : Observes(adapters'[a].keys, d[k])
                       /\ SetReturnsUnwritten(a) )

\* C25 (what set() does guarantee): when set(data) returns, a get() shows
\* the upsert or the
\* deletion of every entry of data that no later entry of the same call
\* overwrites under the same `${category}-${id}` mirror key, and set() has
\* made no store call: no save was issued and the store is as it was; the
\* write is left to the one debounce timer that set() armed.
C25_SetIsVisibleUnlessOverwritten ==
    \A a \in Adapters :
       (proc = "running" /\ adapters[a].status = "ready" /\ socks[a].state = "live") =>
          \A d \in SetInputs :
             ENABLED ( /\ KeysSet(a, d)
                       /\ \A k \in 1 .. Len(d) :
                             LastWriter(d, k) => Observes(adapters'[a].keys, d[k])
                       /\ SetReturnsUnwritten(a) )

\* persistState() is called in this step
SaveIssued == issued' = issued + 1

\* what the adapters have handed to the store: the blobs of the saves in
\* flight and of the versions added
WrittenBlobs ==
    {saves[i].blob : i \in 1 .. Len(saves)} \cup {store.blobs[k] : k \in 1 .. Len(store.blobs)}

\* the most recent set() of (category, id) p on adapter a had a null value,
\* and no (category, id) with the same mirror key has a value set
DeletedLast(a, p) ==
    /\ lastSet[a][p] = Null
    /\ \A q \in Categories \X Ids :
          CompositeKey(q[1], q[2]) = CompositeKey(p[1], p[2]) => lastSet[a][q] \in {Null, Never}

\* C26 (written blobs hold no null entry): every blob handed to the store
\* has a credentials record and a keys mapping whose values are all buffers,
\* never null; and the blob serialised by a save holds no entry under the
\* mirror key of a (category, id) whose most recent set() had a null value.
C26_NoNullInWrittenBlob ==
    /\ [](\A b \in WrittenBlobs :
             /\ DOMAIN b = {"creds", "keys"}
             /\ \A k \in DOMAIN b.keys : b.keys[k] \in BufferIds /\ b.keys[k] # Null)
    /\ [][SaveIssued =>
             LET s == saves'[Len(saves')]
             IN  /\ s.payload = Stringify(s.blob.creds, s.blob.keys)
                 /\ DOMAIN s.payload.keys = DOMAIN s.blob.keys
                 /\ \A p \in Categories \X Ids :
                       DeletedLast(s.adapter, p) =>
                          CompositeKey(p[1], p[2]) \notin DOMAIN s.payload.keys]_vars

\* a version that holds a key is followed by a version written after the
\* key was deleted, which does not hold it
C26_Witness ==
    \E j, k \in 1 .. Len(store.blobs) :
       /\ j < k
       /\ store.blobs[j].keys # EmptyKeys
       /\ store.blobs[k].keys = EmptyKeys
       /\ \E a \in Adapters : lastSet[a][<<"sender-key", "x">>] = Null

\* the pending debounce timers, in the order they were armed
PendingDebounce == SelectSeq(timers, LAMBDA t : t.kind = "debounce")

\* C27 (single-slot debounce): an adapter has at most one debounce timer
\* pending; a set() leaves exactly one, newly armed, whatever was pending
\* before; and the steps of a credential update, of a connection update (a
\* close included), of a reconnect timer and of the completion of a
\* reconnect leave the pending debounce timers as they were.
C27_SingleSlotDebounce ==
    /\ [](\A a \in Adapters :
             /\ Cardinality(DebounceTimers(a)) <= 1
             /\ (proc = "running" /\ adapters[a].status = "ready" /\ socks[a].state = "live") =>
                   \A t \in ConnTriples :
                      ENABLED ( /\ KeysSet(a, <<t>>)
                                /\ Cardinality(DebounceTimers(a)') = 1
                                /\ \A k \in DebounceTimers(a)' : timers'[k].elapsed = 0
                                /\ Len(PendingDebounce') <= Len(PendingDebounce) + 1 ))
    /\ [][( \/ \E a \in Adapters : \E upd \in CredsUpdates : CredsUpdate(a, upd)
            \/ \E i \in Adapters : \E u \in LifecycleUpdates : ConnectionUpdate(i, u)
            \/ \E t \in 1 .. Len(timers) : ReconnectFires(t)
            \/ \E a \in Adapters : LoadSettles(a, {})
            \/ \E a \in Adapters : VersionSettles(a) )
           => PendingDebounce' = PendingDebounce]_vars

\* the debounce timer of an adapter is still running after its socket has
\* closed, a reconnect timer is pending and a credential save of the adapter
\* is in flight
C27_Witness ==
    \E a \in Adapters :
       /\ \E t \in DebounceTimers(a) : timers[t].elapsed > 0
       /\ socks[a].conn = "close" /\ ReconnectTimers # {}
       /\ \E i \in 1 .. Len(saves) : saves[i].via = "creds" /\ saves[i].adapter = a

\* saveCreds() of adapter a is called in this step
CredsSaved(a) ==
    /\ SaveIssued
    /\ saves'[Len(saves')].via = "creds"
    /\ saves'[Len(saves')].adapter = a

\* C28 (a credential save takes the whole blob and leaves the debounce
\* alone): the save issued by a credential update serialises the updated
\* credentials with the key mirror as it stands, the mutations of an open
\* burst included, and leaves the timers, the debounce closure and the burst
\* as they were; a pending debounce timer that is due still fires and issues
\* a save of its own.
C28_CredsSaveKeepsDebounce ==
    /\ [][\A a \in Adapters :
             CredsSaved(a) =>
                LET s == saves'[Len(saves')]
                IN  /\ s.blob = [creds |-> adapters'[a].creds, keys |-> adapters[a].keys]
                    /\ s.payload = Stringify(adapters'[a].creds, adapters[a].keys)
                    /\ bursts[a].open => s.blob.keys = bursts[a].last
                    /\ timers' = timers
                    /\ adapters'[a].timer = adapters[a].timer
                    /\ bursts' = bursts]_vars
    /\ [](\A t \in 1 .. Len(timers) :
             ( /\ proc = "running" /\ timers[t].kind = "debounce"
               /\ Due(timers[t]) /\ issued < MaxSaves ) =>
                ENABLED ( /\ DebounceFires(t)
                          /\ Len(saves') = Len(saves) + 1
                          /\ saves'[Len(saves')].via = "debounce"
                          /\ saves'[Len(saves')].adapter = timers[t].owner ))

\* a credential save that took a key of an open burst is in flight, and the
\* timer of that burst has fired since and issued a save of the same adapter
C28_Witness ==
    \E i, j \in 1 .. Len(saves) :
       /\ i < j
       /\ saves[i].via = "creds" /\ saves[i].blob.keys # EmptyKeys
       /\ saves[j].via = "debounce" /\ saves[j].adapter = saves[i].adapter
       /\ saves[i].pc = "add1" /\ saves[j].pc = "add1"

\* nothing of any adapter is on its way to the store, and every save issued
\* so far has resolved: each has added its one version
Quiescent ==
    /\ saves = << >>
    /\ \A a \in Adapters : DebounceTimers(a) = {}
    /\ issued > 0 /\ Len(store.versions) = issued

\* C29 (as claimed): whenever no save is in flight, no debounce timer is
\* pending and every save issued has succeeded, the latest version of the
\* secret is the serialised state of the adapter in use.
C29_QuiescentStoreIsCurrent ==
    \A a \in Adapters :
       (Quiescent /\ proc = "running" /\ adapters[a].status = "ready") => StoreHasState(a)

\* the run a of connectToWhatsApp(), started by a reconnect timer while the
\* adapter of the socket before it is in memory, loads a version of the secret
ReconnectLoads(a) ==
    /\ ReconnectCompletes(a)
    /\ adapters[a].caller = "timer"
    /\ adapters[a - 1].status = "ready"
    /\ adapters'[a].answer = 0

\* C30 (as claimed): what a reconnect loads from the store is what the
\* adapter of the previous socket holds in memory at that moment, its
\* credentials and its key mirror.
C30_ReconnectLosesNothing ==
    [][\A a \in Adapters :
         ReconnectLoads(a) =>
            /\ adapters'[a].creds = adapters[a - 1].creds
            /\ adapters'[a].keys = adapters[a - 1].keys]_vars

\* a version is added to the secret in this step
VersionAdded == Len(store'.versions) = Len(store.versions) + 1

\* C31 (as claimed): once a reconnect has initialised a new adapter, no save
\* of an earlier adapter adds a version to the secret.
C31_SingleWriter ==
    [][VersionAdded =>
          LET w == store'.order[Len(store'.order)].adapter
          IN  \A a \in Adapters :
                 (a > w /\ adapters[a].caller = "timer") => adapters[a].status # "ready"]_vars

\* C32 (as claimed): against a store that fails only with NOT_FOUND for a
\* missing secret and ALREADY_EXISTS for a duplicate create, a save that
\* found the secret missing ends by adding its version.
C32_OverlappingFirstSavesBothLand ==
    \A r \in done :
       FirstAnswer(r) = GRPC_NOT_FOUND => (r.pc = "ok" /\ r.added = 1)

\* C33 (as claimed): at most one reconnect timer is pending and at most one
\* socket exists that has not reported 'close', also when a socket emits
\* 'close' more than once.
C33_OneTimerOneSocket ==
    Cardinality(ReconnectTimers) <= 1 /\ Cardinality(OpenSockets) <= 1

\* the last socket created
LastSocket(i) == socks[i].state = "live" /\ \A b \in Adapters : b > i => socks[b].state = "none"

\* a run of connectToWhatsApp() is waiting for the store or for the
\* protocol version
AttemptInProgress ==
    \E a \in Adapters : adapters[a].status = "loading" \/ AwaitingVersion(a)

\* C34 (as claimed): while the process runs and the handler of a close with
\* a cause other than loggedOut has run on the last socket, a reconnect
\* timer is pending, a connection attempt is in progress or a socket exists
\* that has not closed; and a connection attempt that failed has ended the
\* process.
C34_ReconnectNeverStalls ==
    /\ \A i \in Adapters :
          (proc = "running" /\ LastSocket(i) /\ socks[i].owed > 0) =>
             (ReconnectTimers # {} \/ AttemptInProgress \/ OpenSockets # {})
    /\ \A a \in Adapters : adapters[a].status = "failed" => proc = "exited"

\* C35 (as claimed): after any sequence of closes and reconnects, every
\* socket that exists and has not closed has the messages.upsert listener
\* of registerMessageHandler registered on it once the attempt that created
\* it has returned, so '#iniciarBot#' is still answered on it.
C35_LiveSocketHasHandler ==
    \A i \in Adapters :
       (proc = "running" /\ i \in OpenSockets /\ adapters[i].status = "ready") =>
          socks[i].handler

\* ------------------------------------------------------------------------
\* Incoming messages: the messages.upsert listener of registerMessageHandler
\* ------------------------------------------------------------------------

\* the longest messages array of one event, and the number of messages
\* received over all events
MaxMessages == 2

\* the command and the fixed answer to it
Command == "#iniciarBot#"
Reply == "Bot Iniciado"

\* An optional field is << >> when it is absent and <<v>> when it holds v.
\* msg.message with a simple text
Text(t) == <<[conversation |-> <<t>>, extendedTextMessage |-> << >>]>>

\* msg.message with an extended text (reply, formatting, link preview) and
\* the conversation field c
Extended(c, t) == <<[conversation |-> c, extendedTextMessage |-> <<[text |-> <<t>>]>>]>>

\* the contents of the received messages: no content at all, a content with
\* neither text field (media), the command as simple and as extended text
\* (beside an absent, an empty and a non-empty conversation field), and
\* bodies that differ from the command in case, by a leading space and by
\* surrounding text
Contents ==
    {<< >>,
     <<[conversation |-> << >>, extendedTextMessage |-> << >>]>>,
     Text(Command),
     Text("#INICIARBOT#"),
     Text(" #iniciarBot#"),
     Text("texto #iniciarBot# aqui"),
     Extended(<< >>, Command),
     Extended(<<"">>, Command),
     Extended(<<"oi">>, Command)}

\* a message with the key fields the listener reads
Message(fromMe, jid, content) ==
    [key |-> [fromMe |-> fromMe, remoteJid |-> jid], message |-> content]

\* messages of another account of one chat with every content, the command
\* from a group, and the command sent by the connected account itself
Messages ==
    {Message(FALSE, "5511999999999@s.whatsapp.net", c) : c \in Contents}
    \cup {Message(FALSE, "GROUPID@g.us", Text(Command)),
          Message(TRUE, "5511999999999@s.whatsapp.net", Text(Command))}

\* the payloads of messages.upsert with up to n messages: new messages and
\* history synchronisation
Events(n) ==
    [type : {"notify", "append"},
     messages : UNION {[1 .. k -> Messages] : k \in 0 .. n}]

\* msg.message?.conversation
Conversation(msg) ==
    IF msg.message = << >> THEN << >> ELSE msg.message[1].conversation

\* msg.message?.extendedTextMessage?.text
ExtendedText(msg) ==
    IF msg.message = << >> THEN << >>
    ELSE IF msg.message[1].extendedTextMessage = << >> THEN << >>
    ELSE msg.message[1].extendedTextMessage[1].text

\* the left operand of || is taken unless it is undefined or ''
Truthy(v) == v # << >> /\ v[1] # ""

ExtractMessageBody(msg) ==
    IF Truthy(Conversation(msg)) THEN Conversation(msg)[1]
    ELSE IF Truthy(ExtendedText(msg)) THEN ExtendedText(msg)[1]
    ELSE ""

\* faulty variant that ignores a leading space
IsCommandTrimmed(body, command) == body \in {command, " #iniciarBot#"}

IsCommand(body, command) == body = command

\* One run of the listener. at: the message whose sendMessage() is awaited,
\* Len(messages) + 1 once the listener has ended; sends: the sendMessage()
\* calls in the order they were made (msg, the index of the message
\* answered, is history); rejected: the promise of the listener rejected;
\* gone: the process of the run has ended.
\* the loop `for (const msg of messages)` from message k up to the next await
RECURSIVE RunFrom(_, _)
RunFrom(u, k) ==
    IF k > Len(u.messages) THEN [u EXCEPT !.at = k]
    ELSE LET msg == u.messages[k]
         IN  IF msg.key.fromMe THEN RunFrom(u, k + 1)
             ELSE IF IsCommand(ExtractMessageBody(msg), Command)
                  THEN [u EXCEPT !.at = k,
                                 !.sends = Append(@, [jid |-> msg.key.remoteJid, text |-> Reply,
                                                      msg |-> k, status |-> "pending"])]
                  ELSE RunFrom(u, k + 1)

\* the listener from its call to its first await or its end
Listener(i, ev) ==
    LET u == [sock |-> i, type |-> ev.type, messages |-> ev.messages, at |-> 0,
              sends |-> << >>, rejected |-> FALSE, gone |-> FALSE]
    IN  IF ev.type # "notify" THEN [u EXCEPT !.at = Len(ev.messages) + 1]
        ELSE RunFrom(u, 1)

\* the awaited sendMessage() resolved or rejected
Settled(u, ok) ==
    [u EXCEPT !.sends[Len(u.sends)].status = IF ok THEN "sent" ELSE "failed"]

\* faulty variant without try/catch around the await
AfterSendUncaught(u, ok) ==
    IF ok THEN RunFrom(Settled(u, ok), u.at + 1)
    ELSE [Settled(u, ok) EXCEPT !.rejected = TRUE, !.at = Len(u.messages) + 1]

\* try { await sock.sendMessage(..) } catch (err) { logger.error(..) }: the
\* loop goes on with the next message either way
AfterSend(u, ok) == RunFrom(Settled(u, ok), u.at + 1)

\* the messages received so far
RECURSIVE Received(_)
Received(us) == IF us = << >> THEN 0 ELSE Len(Head(us).messages) + Received(Tail(us))

\* the run is suspended in `await sock.sendMessage` in the running process
AwaitingSend(u) == u.at \in 1 .. Len(u.messages) /\ ~u.rejected /\ ~u.gone

\* the socket with the listener emits messages.upsert: the listener runs to
\* its first await
MessagesUpsert(i, ev) ==
    /\ proc = "running"
    /\ socks[i].state = "live" /\ socks[i].handler
    /\ Len(upserts) < MaxMessages
    /\ Received(upserts) + Len(ev.messages) <= MaxMessages
    /\ upserts' = Append(upserts, Listener(i, ev))
    /\ UNCHANGED <<env, proc, store, adapters, socks, awaiting, timers, saves, done, issued,
                   bursts, lastSet>>

\* sendMessage() settles and the listener runs on to its next await or its
\* end; nothing handles a rejected listener, and Node.js ends the process
SendSettles(n, ok) ==
    /\ proc = "running"
    /\ n \in DOMAIN upserts
    /\ AwaitingSend(upserts[n])
    /\ upserts' = [upserts EXCEPT ![n] = AfterSend(@, ok)]
    /\ proc' = IF upserts'[n].rejected THEN "exited" ELSE proc
    /\ UNCHANGED <<env, store, adapters, socks, awaiting, timers, saves, done, issued,
                   bursts, lastSet>>

\* a started bot receiving events of up to MaxMessages messages, whose
\* answers are delivered or fail, and its restarts while a run of the
\* listener is suspended
NextMessages ==
    \/ \E listens \in BOOLEAN : Main(listens)
    \/ \E listens \in BOOLEAN :
          (\E n \in DOMAIN upserts : AwaitingSend(upserts[n])) /\ Restart(listens)
    \/ \E a \in Adapters : LoadSettles(a, {})
    \/ \E a \in Adapters : VersionSettles(a)
    \/ \E i \in {a \in Adapters : socks[a].handler} :
          \E ev \in Events(MaxMessages - Received(upserts)) : MessagesUpsert(i, ev)
    \/ \E n \in 1 .. MaxMessages : \E ok \in BOOLEAN : SendSettles(n, ok)

SpecMessages == InitConfigured /\ [][NextMessages]_vars

\* message k of the run is a new message of another account whose body is
\* the command
Qualifies(u, k) ==
    /\ u.type = "notify"
    /\ ~u.messages[k].key.fromMe
    /\ ExtractMessageBody(u.messages[k]) = "#iniciarBot#"

\* the messages the loop has reached
Reached(u) == 1 .. (IF u.at > Len(u.messages) THEN Len(u.messages) ELSE u.at)

\* the messages reached that are to be answered, in their order in the event
ToAnswer(u) ==
    SelectSeq([k \in 1 .. Len(u.messages) |-> k],
              LAMBDA k : k \in Reached(u) /\ Qualifies(u, k))

\* C36 (one answer per command, and only per command): in every run of the
\* messages.upsert listener the sendMessage() calls made so far are, in the
\* order of the event, exactly the messages reached that arrived in a
\* 'notify' event, are not fromMe and whose body is '#iniciarBot#' to the
\* letter; each call goes to the remoteJid of its message and carries
\* 'Bot Iniciado'. No other message causes a call.
C36_ReplyIffCommand ==
    \A n \in DOMAIN upserts :
       LET u == upserts[n]
           due == ToAnswer(u)
       IN  /\ Len(u.sends) = Len(due)
           /\ \A j \in DOMAIN due :
                 /\ u.sends[j].msg = due[j]
                 /\ u.sends[j].jid = u.messages[due[j]].key.remoteJid
                 /\ u.sends[j].text = "Bot Iniciado"

\* a 'notify' event of two messages has been handled to its end: the
\* command from the group was answered in the group, the command with a
\* leading space was not answered
C36_Witness ==
    \E n \in DOMAIN upserts :
       LET u == upserts[n]
       IN  /\ u.type = "notify" /\ Len(u.messages) = 2 /\ u.at = 3
           /\ u.messages[1].key.remoteJid = "GROUPID@g.us" /\ Qualifies(u, 1)
           /\ ExtractMessageBody(u.messages[2]) = " #iniciarBot#"
           /\ Len(u.sends) = 1 /\ u.sends[1].status = "sent"
           /\ u.sends[1].jid = "GROUPID@g.us"

\* C37 (a failed answer is caught): after a sendMessage() of a run has
\* failed, the process of the run is running (until it is restarted), the
\* promise of the listener has not rejected, the loop has gone on past the
\* message, and every later message it has reached that is to be answered
\* has its sendMessage() call.
C37_SendFailureIsCaught ==
    \A n \in DOMAIN upserts :
       LET u == upserts[n]
       IN  \A j \in DOMAIN u.sends :
              u.sends[j].status = "failed" =>
                 /\ ~u.gone => proc = "running"
                 /\ ~u.rejected
                 /\ u.at > u.sends[j].msg
                 /\ \A k \in Reached(u) :
                       (k > u.sends[j].msg /\ Qualifies(u, k)) =>
                          \E s \in DOMAIN u.sends : u.sends[s].msg = k

\* the answer to the first message of an event failed, the answer to the
\* second one was sent, and the listener has ended
C37_Witness ==
    \E n \in DOMAIN upserts :
       LET u == upserts[n]
       IN  /\ Len(u.messages) = 2 /\ u.at = 3 /\ Len(u.sends) = 2
           /\ u.sends[1].status = "failed" /\ u.sends[1].msg = 1
           /\ u.sends[2].status = "sent" /\ u.sends[2].msg = 2
           /\ proc = "running"

====
